---- MODULE Spec2Model ----
(***************************************************************************)
(* Battery monitor task of the Xling firmware                             *)
(* (src/software/src/xling/tasks/battery_monitor_task.c).                  *)
(*                                                                         *)
(* The model has the periodic task batmon_task, cut into one action per    *)
(* scheduling point (every FreeRTOS call and every access to the state    *)
(* shared with the ADC interrupt), the ADC conversion-complete interrupt,  *)
(* the start-up function xt_init_battery_monitor with init_adc, and the     *)
(* environment the task talks to: the tick interrupt, the tasks that post  *)
(* to the battery control queue and notify the task, and the display task  *)
(* that empties the display queue.                                         *)
(*                                                                         *)
(* Target assumptions, taken from the includes of the file (avr/io.h,      *)
(* FreeRTOS.h): an 8-bit AVR where int and unsigned int are 16 bits wide,  *)
(* a 16-bit object is read one byte at a time, and FreeRTOS gives the      *)
(* queue, notification and delay calls their documented behaviour          *)
(* (INCLUDE_vTaskSuspend = 1, so that portMAX_DELAY blocks without a       *)
(* timeout).                                                               *)
(***************************************************************************)
EXTENDS Integers, Sequences, FiniteSets, TLC

(* ------------------------------------------------------------------ *)
(* Program constants.                                                  *)
(* ------------------------------------------------------------------ *)
BAT_MAX == 700
BAT_MIN == 545
\* Number of values of uint16_t (and of unsigned int on the AVR target).
UINT16_MOD == 65536
\* Number of values of one 8-bit register or memory byte.
BYTE_MOD == 256
\* Number of values of the 10-bit ADC result.
ADC_MOD == 1024
\* The mask the interrupt handler applies to ADCH << 8: 0x0300, two bits of
\* ADCH (0x0700 would keep three).
LVL_HIGH_MASK_ThreeBits == 7 * BYTE_MOD

LVL_HIGH_MASK == 768
\* The mask 1U the interrupt handler applies to PINA.
STAT_MASK == 1
\* The xTicksToWait argument of every queue call of the task.
QUEUE_WAIT_Forever == UINT16_MOD - 1

QUEUE_WAIT == 0

\* Bit numbers of the ADC registers (avr/io.h, ATmega1284P).
REFS1 == 7
REFS0 == 6
MUX4 == 4
MUX3 == 3
MUX2 == 2
MUX1 == 1
MUX0 == 0
ADEN == 7
ADSC == 6
ADATE == 5
ADIE == 3
ADPS2 == 2
ADPS1 == 1
ADPS0 == 0
ADTS2 == 2
ADTS1 == 1
ADTS0 == 0

(* ------------------------------------------------------------------ *)
(* Bounds of the model.                                                *)
(* ------------------------------------------------------------------ *)
\* pdMS_TO_TICKS(TASK_PERIOD): the period in ticks.  Its value depends on
\* configTICK_RATE_HZ, which the file does not set; the model scales it.
TASK_DELAY == 2
\* Number of values of TickType_t (2^16 or 2^32 on the target), scaled.
TickModulus == 4
\* Tick interrupts the model follows.
MaxTime == 7
\* Capacity of the display queue and of the battery control queue.
DisplayQueueLen == 2
BatteryQueueLen == 2
\* Suspend-requests (and as many resume notifications) SpecLive follows.
MaxSuspends == 2

(* ------------------------------------------------------------------ *)
(* Messages (xling/msg.h): a type and a value.  A value is a rational  *)
(* <<numerator, denominator>>, so that the battery percentage is kept  *)
(* exactly.                                                            *)
(* ------------------------------------------------------------------ *)
XM_MSG_TASKSUSP_REQ == "XM_MSG_TASKSUSP_REQ"
XM_MSG_BATLVL == "XM_MSG_BATLVL"
XM_MSG_BATSTATPIN == "XM_MSG_BATSTATPIN"
\* Stands for every message type the task's switch sends to `default'.
XM_MSG_OTHER == "XM_MSG_OTHER"

ControlTypes == {XM_MSG_TASKSUSP_REQ, XM_MSG_OTHER}

Rat(n, d) == <<n, d>>
Num(q) == q[1]
Den(q) == q[2]
RatLess(p, q) == Num(p) * Den(q) < Num(q) * Den(p)
RatLeq(p, q) == Num(p) * Den(q) <= Num(q) * Den(p)
RatEq(p, q) == Num(p) * Den(q) = Num(q) * Den(p)

Msg(t, v) == [type |-> t, value |-> v]

(* ------------------------------------------------------------------ *)
(* BAT_PERCENT(v) = ((v)-BAT_MIN)/((BAT_MAX-BAT_MIN)/100.0).  Its      *)
(* argument is the uint16_t _bat_lvl: on the target uint16_t is        *)
(* unsigned int, BAT_MIN is converted to unsigned int and the          *)
(* subtraction is done modulo 2^16; the difference is then divided by  *)
(* the double 1.55 = 155/100.                                          *)
(* ------------------------------------------------------------------ *)
\* The divisor computed in integer arithmetic ((BAT_MAX-BAT_MIN)/100, with 100
\* for 100.0): 155 / 100 = 1.
BAT_PERCENT_IntDivisor(v) == Rat((v - BAT_MIN) % UINT16_MOD, (BAT_MAX - BAT_MIN) \div 100)

BAT_PERCENT(v) == Rat(((v - BAT_MIN) % UINT16_MOD) * 100, BAT_MAX - BAT_MIN)

LowByte(v) == v % BYTE_MOD
HighByte(v) == v \div BYTE_MOD

(* ------------------------------------------------------------------ *)
(* Bit operations of C on the 16-bit int and unsigned int of the       *)
(* target, and the two bit macros of the file.                         *)
(* ------------------------------------------------------------------ *)
BitOf(v, n) == (v \div (2 ^ n)) % 2

RECURSIVE OrBits(_, _, _)
OrBits(a, b, n) ==
    IF n < 0 THEN 0
    ELSE (IF BitOf(a, n) = 1 \/ BitOf(b, n) = 1 THEN 2 ^ n ELSE 0) + OrBits(a, b, n - 1)

RECURSIVE AndBits(_, _, _)
AndBits(a, b, n) ==
    IF n < 0 THEN 0
    ELSE (IF BitOf(a, n) = 1 /\ BitOf(b, n) = 1 THEN 2 ^ n ELSE 0) + AndBits(a, b, n - 1)

\* a | b and a & b on 16-bit operands.
BitOr(a, b) == OrBits(a, b, 15)
BitAnd(a, b) == AndBits(a, b, 15)
\* ~a on a 16-bit unsigned operand.
BitNot(a) == UINT16_MOD - 1 - a
\* a << n on a 16-bit operand: the bits shifted out are lost.
ShiftLeft(a, n) == (a * (2 ^ n)) % UINT16_MOD

\* SET_BIT(byte, bit): (byte) |= (1U << (bit)), stored into an 8-bit register.
SET_BIT(byte, bit) == BitOr(byte, ShiftLeft(1, bit)) % BYTE_MOD

\* CLEAR_BIT(byte, bit): (byte) &= (uint8_t) ~(1U << (bit)).
CLEAR_BIT_NoComplement(byte, bit) == BitAnd(byte, ShiftLeft(1, bit) % BYTE_MOD)

CLEAR_BIT(byte, bit) == BitAnd(byte, BitNot(ShiftLeft(1, bit)) % BYTE_MOD)

VARIABLES
    \* batmon_task
    pc,                 \* where the task is
    last_wake_time,     \* TickType_t last_wake_time
    msg,                \* xm_msg_t msg, the one buffer of the task
    lvl_tmp,            \* the byte of _bat_lvl read so far: <<which, byte>>
    \* FreeRTOS objects
    xTickCount,         \* the tick count, modulo TickModulus
    battery_queue,      \* args->battery_info.queue_handle
    display_queue,      \* args->display_info.queue_handle
    notifyState,        \* the task's notification state
    \* shared sample state
    bat_lvl,            \* _bat_lvl
    bat_stat,           \* _bat_stat
    \* history variables
    absNow,             \* tick interrupts since boot (not wrapped)
    startTick,          \* the tick count read before the loop
    startAbs,           \* absNow at that read
    tickNo,             \* calls of vTaskDelayUntil so far
    bodyStart,          \* absNow when the current tick body started
    prevBodyStart,      \* absNow when the tick body before it started (-1: none)
    lvlResult,          \* this tick's battery-level send: none, ok, full
    statResult,         \* this tick's battery-status-pin send: none, ok, full
    sentThisTick,       \* types of the messages the task enqueued in this tick, in order
    droppedLvl,         \* the raw level of the battery-level message dropped last (-1: none)
    owed,               \* control messages in the queue at the last resume, not yet received
    fifoOK,             \* every receive took the queue's head
    drainLen0,          \* length of the control queue when the drain started
    drainClean,         \* no suspend-request at its start, nothing enqueued during it
    recvOK,             \* successful receives of this drain, counted while it is clean
    recvFail,           \* failed receives of this drain
    waited,             \* xTaskNotifyWait was called in this drain
    notifiedSince,      \* in xTaskNotifyWait: a notification was sent since the call
    windowVals,         \* values _bat_lvl held while the task read it
    lvlUsed,            \* the value of _bat_lvl the task used last (-1: none)
    \* xt_init_battery_monitor and init_adc
    ADMUX,              \* the three ADC registers init_adc writes
    ADCSRA,
    ADCSRB,
    task_handle,        \* _task_handle (0: NULL)
    out_handle,         \* *task_handle, the caller's slot for the handle
    status,             \* BaseType_t status of xt_init_battery_monitor
    rc,                 \* int rc (-1: the function was not called yet)
    bpc,                \* where xt_init_battery_monitor is
    ipc,                \* the statement of init_adc that runs next
    \* history variables of the start-up and of the interrupt handler
    regs0,              \* <<ADMUX, ADCSRA, ADCSRB>> when init_adc was entered
    handle0,            \* _task_handle when xt_init_battery_monitor was entered
    isrIn,              \* <<ADCL, ADCH, PINA>> as the handler read them last (<<>>: never)
    isrBetween,         \* the handler ran between this tick's reads of _bat_lvl and _bat_stat
    nSuspReq,           \* suspend-requests counted by SendSuspendRequest
    nResume             \* notifications counted by SendResume

taskVars == <<pc, last_wake_time, msg, lvl_tmp>>
rtosVars == <<xTickCount, battery_queue, display_queue, notifyState>>
sampleVars == <<bat_lvl, bat_stat>>
timeHist == <<absNow, startTick, startAbs, tickNo, bodyStart, prevBodyStart>>
sendHist == <<lvlResult, statResult, sentThisTick, droppedLvl>>
drainHist == <<owed, fifoOK, drainLen0, drainClean, recvOK, recvFail, waited>>
notifyHist == <<notifiedSince>>
readHist == <<windowVals, lvlUsed>>
adcRegs == <<ADMUX, ADCSRA, ADCSRB>>
bootVars == <<adcRegs, task_handle, out_handle, status, rc, bpc, ipc>>
bootHist == <<regs0, handle0>>
isrHist == <<isrIn, isrBetween>>
pairHist == <<nSuspReq, nResume>>
vars == <<taskVars, rtosVars, sampleVars, timeHist, sendHist, drainHist, notifyHist, readHist,
          bootVars, bootHist, isrHist, pairHist>>

(* ------------------------------------------------------------------ *)
(* init_adc as the list of its statements, in program order.           *)
(* ------------------------------------------------------------------ *)
Stmt(o, r, b) == [op |-> o, reg |-> r, bit |-> b]

init_adc_code ==
    << Stmt("SET", "ADMUX", REFS1),
       Stmt("CLEAR", "ADMUX", REFS0),
       Stmt("SET", "ADCSRA", ADPS2),
       Stmt("SET", "ADCSRA", ADPS1),
       Stmt("CLEAR", "ADCSRA", ADPS0),
       Stmt("CLEAR", "ADMUX", MUX4),
       Stmt("CLEAR", "ADMUX", MUX3),
       Stmt("CLEAR", "ADMUX", MUX2),
       Stmt("SET", "ADMUX", MUX1),
       Stmt("SET", "ADMUX", MUX0),
       Stmt("CLEAR", "ADCSRB", ADTS2),
       Stmt("CLEAR", "ADCSRB", ADTS1),
       Stmt("CLEAR", "ADCSRB", ADTS0),
       Stmt("SET", "ADCSRA", ADEN),
       Stmt("SET", "ADCSRA", ADIE),
       Stmt("SET", "ADCSRA", ADATE),
       Stmt("SET", "ADCSRA", ADSC) >>

\* The content of register `name' after statement st, `byte' being its
\* content before.
Exec(st, name, byte) ==
    IF st.reg # name THEN byte
    ELSE IF st.op = "SET" THEN SET_BIT(byte, st.bit) ELSE CLEAR_BIT(byte, st.bit)

ExecAll(st, regs) ==
    <<Exec(st, "ADMUX", regs[1]), Exec(st, "ADCSRA", regs[2]), Exec(st, "ADCSRB", regs[3])>>

\* The registers after the statements i, i + 1, ... of init_adc.
RECURSIVE RunFrom(_, _)
RunFrom(i, regs) ==
    IF i > Len(init_adc_code) THEN regs ELSE RunFrom(i + 1, ExecAll(init_adc_code[i], regs))

\* Handles xTaskCreate can return; 0 is NULL.
TaskHandles == {1, 2}

pdPASS == "pdPASS"
errCOULD_NOT_ALLOCATE_REQUIRED_MEMORY == "errCOULD_NOT_ALLOCATE_REQUIRED_MEMORY"

\* The state of the task, the FreeRTOS objects and the shared sample state
\* before the task has run: the queues are empty, the task is at `p', the
\* shared sample state holds `lvl' and `stat'.
InitState(p, lvl, stat) ==
    /\ pc = p
    /\ last_wake_time = 0
    /\ msg = Msg("uninit", Rat(0, 1))
    /\ lvl_tmp = <<"none", 0>>
    /\ xTickCount = 0
    /\ battery_queue = <<>>
    /\ display_queue = <<>>
    /\ notifyState = "NOT_WAITING"
    /\ bat_lvl = lvl
    /\ bat_stat = stat
    /\ absNow = 0
    /\ startTick = 0
    /\ startAbs = 0
    /\ tickNo = 0
    /\ bodyStart = 0
    /\ prevBodyStart = -1
    /\ lvlResult = "none"
    /\ statResult = "none"
    /\ sentThisTick = <<>>
    /\ droppedLvl = -1
    /\ owed = <<>>
    /\ fifoOK = TRUE
    /\ drainLen0 = 0
    /\ drainClean = TRUE
    /\ recvOK = 0
    /\ recvFail = 0
    /\ waited = FALSE
    /\ notifiedSince = FALSE
    /\ windowVals = {}
    /\ lvlUsed = -1
    /\ isrIn = <<>>
    /\ isrBetween = FALSE
    /\ nSuspReq = 0
    /\ nResume = 0

\* The state when the scheduler starts the task: xt_init_battery_monitor has
\* run once from the reset values of the registers and of _task_handle, and
\* has created the task.
InitWith(lvl, stat) ==
    /\ InitState("init", lvl, stat)
    /\ ADMUX = RunFrom(1, <<0, 0, 0>>)[1]
    /\ ADCSRA = RunFrom(1, <<0, 0, 0>>)[2]
    /\ ADCSRB = RunFrom(1, <<0, 0, 0>>)[3]
    /\ task_handle = 1
    /\ out_handle = 1
    /\ status = pdPASS
    /\ rc = 0
    /\ bpc = "idle"
    /\ ipc = Len(init_adc_code) + 1
    /\ regs0 = <<0, 0, 0>>
    /\ handle0 = 0

\* _bat_lvl and _bat_stat are static objects: zero until the first conversion.
Init == InitWith(0, 0)

(* ------------------------------------------------------------------ *)
(* xt_init_battery_monitor.                                            *)
(* ------------------------------------------------------------------ *)
\* The return code: rc = 1 when status != pdPASS, else the initial 0.
ReturnCode(st) == IF st # pdPASS THEN 1 ELSE 0

\* _task_handle after the if: assigned from *task_handle on success only.
StoredHandle_Always(st, old, out) == out

StoredHandle(st, old, out) == IF st # pdPASS THEN old ELSE out

\* The call, up to the call of init_adc: int rc = 0.
XtInitCall ==
    /\ bpc = "idle"
    /\ bpc' = "init_adc"
    /\ ipc' = 1
    /\ rc' = 0
    /\ status' = "none"
    /\ regs0' = adcRegs
    /\ handle0' = task_handle
    /\ UNCHANGED <<taskVars, rtosVars, sampleVars, timeHist, sendHist, drainHist, notifyHist,
                   readHist, adcRegs, task_handle, out_handle, isrHist, pairHist>>

\* One statement of init_adc; after the last one, init_adc returns.
InitAdcStep ==
    /\ bpc = "init_adc"
    /\ ADMUX' = Exec(init_adc_code[ipc], "ADMUX", ADMUX)
    /\ ADCSRA' = Exec(init_adc_code[ipc], "ADCSRA", ADCSRA)
    /\ ADCSRB' = Exec(init_adc_code[ipc], "ADCSRB", ADCSRB)
    /\ ipc' = ipc + 1
    /\ bpc' = IF ipc = Len(init_adc_code) THEN "create" ELSE bpc
    /\ UNCHANGED <<taskVars, rtosVars, sampleVars, timeHist, sendHist, drainHist, notifyHist,
                   readHist, task_handle, out_handle, status, rc, bootHist, isrHist, pairHist>>

\* status = xTaskCreate(batmon_task, TASK_NAME, STACK_SZ, args, prio, task_handle):
\* on success the handle `h' of the new task is stored in *task_handle and the
\* task is ready to run; on failure (no memory) *task_handle is not written.
\* The model follows the first task created.
XTaskCreate(ok, h) ==
    /\ bpc = "create"
    /\ bpc' = "check"
    /\ status' = IF ok THEN pdPASS ELSE errCOULD_NOT_ALLOCATE_REQUIRED_MEMORY
    /\ out_handle' = IF ok THEN h ELSE out_handle
    /\ pc' = IF ok /\ pc = "none" THEN "init" ELSE pc
    /\ UNCHANGED <<last_wake_time, msg, lvl_tmp, rtosVars, sampleVars, timeHist, sendHist,
                   drainHist, notifyHist, readHist, adcRegs, task_handle, rc, ipc, bootHist,
                   isrHist, pairHist>>

\* if (status != pdPASS) rc = 1; else _task_handle = (*task_handle); return rc;
XtInitReturn ==
    /\ bpc = "check"
    /\ bpc' = "idle"
    /\ rc' = ReturnCode(status)
    /\ task_handle' = StoredHandle(status, task_handle, out_handle)
    /\ UNCHANGED <<taskVars, rtosVars, sampleVars, timeHist, sendHist, drainHist, notifyHist,
                   readHist, adcRegs, out_handle, status, ipc, bootHist, isrHist, pairHist>>

(* ------------------------------------------------------------------ *)
(* FreeRTOS calls of the task, as the task uses them.                  *)
(* ------------------------------------------------------------------ *)
\* vTaskDelayUntil(&last_wake_time, TASK_DELAY): the next wake time is the
\* previous one plus the period, in TickType_t arithmetic.
TimeToWake_FromNow(prev) == (xTickCount + TASK_DELAY) % TickModulus

TimeToWake(prev) == (prev + TASK_DELAY) % TickModulus

\* vTaskDelayUntil blocks only when the wake time is still ahead of the tick
\* count `now', the tick counter's wrap-around taken into account.
ShouldDelay_Never(now, prev, wake) == FALSE

ShouldDelay(now, prev, wake) ==
    IF now < prev
    THEN wake < prev /\ wake > now
    ELSE wake < prev \/ wake > now

\* xTaskNotifyWait(0, 0, NULL, portMAX_DELAY): with portMAX_DELAY the call has
\* no timeout.
WaitBlocks_ZeroTimeout == FALSE

WaitBlocks == TRUE

\* On entry xTaskNotifyWait marks the task as waiting unless a notification is
\* already pending.
NotifyWaitEntry(s) == IF s = "RECEIVED" THEN "RECEIVED" ELSE "WAITING"

\* It returns once a notification is pending (or its timeout ran out).
CanReturnFromWait(s) == s = "RECEIVED" \/ ~WaitBlocks

\* xQueueSendToBack(q, &msg, 0): pdPASS when the queue has a free slot.
QueueHasRoom(q, cap) == Len(q) < cap

QueueSend(q, cap, m) == IF QueueHasRoom(q, cap) THEN Append(q, m) ELSE q

\* A queue call returns at once when it can be served or when its
\* xTicksToWait is zero; otherwise the caller is blocked on the queue.
QueueCallReturns(canBeServed, xTicksToWait) == canBeServed \/ xTicksToWait = 0

\* The writes to the two fields of the task's message buffer.
SetType(buf, t) == [buf EXCEPT !.type = t]

SetValue_Skip(buf, v) == buf

SetValue(buf, v) == [buf EXCEPT !.value = v]

\* The value field of the control messages other tasks post: any value; one
\* that the task itself never computes.
CONTROL_VALUE == Rat(255, 1)

(* ------------------------------------------------------------------ *)
(* Control flow of the task loop.                                      *)
(* ------------------------------------------------------------------ *)
\* After xQueueReceive: a suspend-request leads to xTaskNotifyWait, any other
\* message back to the receive, an empty queue out of the drain loop.
AfterReceive_StopAtFirst(received, type) ==
    IF received /\ type = XM_MSG_TASKSUSP_REQ THEN "wait" ELSE "lvl"

AfterReceive(received, type) ==
    IF ~received THEN "lvl"
    ELSE IF type = XM_MSG_TASKSUSP_REQ THEN "wait" ELSE "recv"

\* After xTaskNotifyWait: `break' leaves the switch, not the drain loop.
AfterNotifyWait_LeaveDrain == "lvl"

AfterNotifyWait == "recv"

\* After the battery-level send: `continue' on failure.
AfterLvlSend_NoContinue(sent) == "stat"

AfterLvlSend_Retry(sent) == IF sent THEN "stat" ELSE "lvl"

AfterLvlSend(sent) == IF sent THEN "stat" ELSE "loop"

SendResult(sent) == IF sent THEN "ok" ELSE "full"

InBody == pc \in {"recv", "wait", "lvl", "lvl2", "stat"}
InDrain == pc \in {"recv", "wait"}

(* ------------------------------------------------------------------ *)
(* batmon_task.                                                        *)
(* ------------------------------------------------------------------ *)
\* last_wake_time = xTaskGetTickCount();
TaskStart ==
    /\ pc = "init"
    /\ bpc = "idle"
    /\ pc' = "loop"
    /\ last_wake_time' = xTickCount
    /\ startTick' = xTickCount
    /\ startAbs' = absNow
    /\ UNCHANGED <<msg, lvl_tmp, rtosVars, sampleVars, absNow, tickNo, bodyStart,
                   prevBodyStart, sendHist, drainHist, notifyHist, readHist,
                   bootVars, bootHist, isrHist, pairHist>>

\* vTaskDelayUntil(&last_wake_time, TASK_DELAY), the call: the wake time is
\* computed and stored, and the task blocks if it is still ahead.
DelayUntilCall ==
    /\ pc = "loop"
    /\ LET wake == TimeToWake(last_wake_time) IN
        /\ last_wake_time' = wake
        /\ pc' = IF ShouldDelay(xTickCount, last_wake_time, wake) THEN "delayed" ELSE "ready"
    /\ tickNo' = tickNo + 1
    /\ lvlResult' = "none"
    /\ statResult' = "none"
    /\ sentThisTick' = <<>>
    /\ droppedLvl' = (IF lvlResult = "ok" THEN -1 ELSE droppedLvl)
    /\ isrBetween' = FALSE
    /\ UNCHANGED <<msg, lvl_tmp, rtosVars, sampleVars, absNow, startTick, startAbs,
                   bodyStart, prevBodyStart, drainHist, notifyHist, readHist,
                   bootVars, bootHist, isrIn, pairHist>>

\* vTaskDelayUntil returns: the task runs again and the tick body starts.
DelayUntilReturn ==
    /\ pc = "ready"
    /\ pc' = "recv"
    /\ prevBodyStart' = (IF tickNo > 1 THEN bodyStart ELSE -1)
    /\ bodyStart' = absNow
    /\ drainLen0' = Len(battery_queue)
    /\ drainClean' = (\A i \in 1..Len(battery_queue) :
                          battery_queue[i].type # XM_MSG_TASKSUSP_REQ)
    /\ recvOK' = 0
    /\ recvFail' = 0
    /\ waited' = FALSE
    /\ UNCHANGED <<last_wake_time, msg, lvl_tmp, rtosVars, sampleVars, absNow, startTick,
                   startAbs, tickNo, sendHist, owed, fifoOK, notifyHist, readHist,
                   bootVars, bootHist, isrHist, pairHist>>

\* status = xQueueReceive(battery_queue, &msg, 0), and the switch on msg.type
\* up to the call of xTaskNotifyWait.
Receive ==
    /\ pc = "recv"
    /\ QueueCallReturns(battery_queue # <<>>, QUEUE_WAIT)
    /\ IF battery_queue # <<>>
       THEN LET m == Head(battery_queue) IN
            /\ msg' = m
            /\ battery_queue' = Tail(battery_queue)
            /\ pc' = AfterReceive(TRUE, m.type)
            /\ recvOK' = (IF drainClean THEN recvOK + 1 ELSE recvOK)
            /\ fifoOK' = (fifoOK /\ (owed # <<>> => Head(owed) = m))
            /\ owed' = (IF owed # <<>> THEN Tail(owed) ELSE owed)
            /\ IF pc' = "wait"
               THEN /\ notifyState' = NotifyWaitEntry(notifyState)
                    /\ waited' = TRUE
                    /\ notifiedSince' = FALSE
               ELSE UNCHANGED <<notifyState, waited, notifiedSince>>
            /\ UNCHANGED recvFail
       ELSE /\ pc' = AfterReceive(FALSE, msg.type)
            /\ recvFail' = recvFail + 1
            /\ UNCHANGED <<msg, battery_queue, notifyState, recvOK, fifoOK, owed, waited,
                           notifiedSince>>
    /\ UNCHANGED <<last_wake_time, lvl_tmp, xTickCount, display_queue, sampleVars,
                   timeHist, sendHist, drainLen0, drainClean, readHist,
                   bootVars, bootHist, isrHist, pairHist>>

\* xTaskNotifyWait(0, 0, NULL, portMAX_DELAY) returns, and `break'.
NotifyWaitReturn ==
    /\ pc = "wait"
    /\ CanReturnFromWait(notifyState)
    /\ notifyState' = "NOT_WAITING"
    /\ pc' = AfterNotifyWait
    /\ notifiedSince' = FALSE
    /\ owed' = battery_queue
    /\ UNCHANGED <<last_wake_time, msg, lvl_tmp, xTickCount, battery_queue, display_queue,
                   sampleVars, timeHist, sendHist, fifoOK, drainLen0, drainClean, recvOK,
                   recvFail, waited, readHist, bootVars, bootHist, isrHist, pairHist>>

\* msg.type = XM_MSG_BATLVL; and the first of the two byte reads of the
\* volatile uint16_t _bat_lvl.  The order of the two reads is the compiler's.
ReadLvl ==
    /\ pc = "lvl"
    /\ pc' = "lvl2"
    /\ msg' = SetType(msg, XM_MSG_BATLVL)
    /\ \E which \in {"lo", "hi"} :
          lvl_tmp' = <<which, IF which = "lo" THEN LowByte(bat_lvl) ELSE HighByte(bat_lvl)>>
    /\ windowVals' = {bat_lvl}
    \* the publish step starts: the history of the drain is dropped
    /\ drainLen0' = 0
    /\ drainClean' = TRUE
    /\ recvOK' = 0
    /\ recvFail' = 0
    /\ waited' = FALSE
    /\ UNCHANGED <<last_wake_time, rtosVars, sampleVars, timeHist, sendHist, owed, fifoOK,
                   notifyHist, lvlUsed, bootVars, bootHist, isrHist, pairHist>>

\* The value of _bat_lvl the task gets from the byte read first and the byte
\* it reads now.
LvlRead ==
    IF lvl_tmp[1] = "lo"
    THEN HighByte(bat_lvl) * BYTE_MOD + lvl_tmp[2]
    ELSE lvl_tmp[2] * BYTE_MOD + LowByte(bat_lvl)

\* The second byte read, msg.value = BAT_PERCENT(_bat_lvl);
\* status = xQueueSendToBack(display_queue, &msg, 0); and `continue' on failure.
SendLvl ==
    /\ pc = "lvl2"
    /\ QueueCallReturns(QueueHasRoom(display_queue, DisplayQueueLen), QUEUE_WAIT)
    /\ LET m == SetValue(msg, BAT_PERCENT(LvlRead))
           sent == QueueHasRoom(display_queue, DisplayQueueLen)
       IN
        /\ msg' = m
        /\ display_queue' = QueueSend(display_queue, DisplayQueueLen, m)
        /\ pc' = AfterLvlSend(sent)
        /\ lvlResult' = SendResult(sent)
        /\ sentThisTick' = (IF sent THEN Append(sentThisTick, m.type) ELSE sentThisTick)
        /\ droppedLvl' = (IF sent THEN droppedLvl ELSE LvlRead)
    /\ lvlUsed' = LvlRead
    /\ lvl_tmp' = <<"none", 0>>
    /\ isrBetween' = FALSE
    /\ UNCHANGED <<last_wake_time, xTickCount, battery_queue, notifyState, sampleVars,
                   timeHist, statResult, drainHist, notifyHist, windowVals,
                   bootVars, bootHist, isrIn, pairHist>>

\* msg.type = XM_MSG_BATSTATPIN; msg.value = _bat_stat;
\* status = xQueueSendToBack(display_queue, &msg, 0); and the end of the loop body.
SendStat ==
    /\ pc = "stat"
    /\ QueueCallReturns(QueueHasRoom(display_queue, DisplayQueueLen), QUEUE_WAIT)
    /\ LET m == SetValue(SetType(msg, XM_MSG_BATSTATPIN), Rat(bat_stat, 1))
           sent == QueueHasRoom(display_queue, DisplayQueueLen)
       IN
        /\ msg' = m
        /\ display_queue' = QueueSend(display_queue, DisplayQueueLen, m)
        /\ statResult' = SendResult(sent)
        /\ sentThisTick' = (IF sent THEN Append(sentThisTick, m.type) ELSE sentThisTick)
    /\ pc' = "loop"
    /\ UNCHANGED <<last_wake_time, lvl_tmp, xTickCount, battery_queue, notifyState,
                   sampleVars, timeHist, lvlResult, droppedLvl, drainHist, notifyHist, readHist,
                   bootVars, bootHist, isrHist, pairHist>>

(* ------------------------------------------------------------------ *)
(* The ADC conversion-complete interrupt.  It preempts the task at any *)
(* point and is not preempted by it.                                   *)
(* ------------------------------------------------------------------ *)
\* The three expressions of the handler, tabulated over the values of a byte.
\* ADCH << 8 is computed in the 16-bit int of the target; for ADCH >= 128 the
\* shift reaches the sign bit, which the compiler of the target (GCC) defines
\* as the shift of the bit pattern.
Byte == 0..(BYTE_MOD - 1)

\* (ADCH << 8) & 0x0300
LvlHigh == [adch \in Byte |-> BitAnd(ShiftLeft(adch, 8), LVL_HIGH_MASK)]

\* (uint16_t)((lvl_high) | (lvl_low))
LvlJoin ==
    [high \in {LvlHigh[adch] : adch \in Byte}, low \in Byte |-> BitOr(high, low) % UINT16_MOD]

\* PINA & 1U, stored into the uint8_t _bat_stat
StatBit == [pina \in Byte |-> BitAnd(pina, STAT_MASK) % BYTE_MOD]

\* A handler that also notifies the task.
ADC_ISR_Notifies(adcl, adch, pina) ==
    /\ bat_lvl' = LvlJoin[LvlHigh[adch], adcl]
    /\ bat_stat' = StatBit[pina]
    /\ notifyState' = "RECEIVED"
    /\ windowVals' = (IF pc = "lvl2" THEN windowVals \cup {bat_lvl'} ELSE windowVals)
    /\ isrIn' = <<adcl, adch, pina>>
    /\ isrBetween' = (isrBetween \/ pc = "stat")
    /\ UNCHANGED <<taskVars, xTickCount, battery_queue, display_queue, timeHist, sendHist,
                   drainHist, notifyHist, lvlUsed, bootVars, bootHist, pairHist>>

ADC_ISR(adcl, adch, pina) ==
    /\ LET lvl_low == adcl
           lvl_high == LvlHigh[adch]
       IN bat_lvl' = LvlJoin[lvl_high, lvl_low]
    /\ bat_stat' = StatBit[pina]
    /\ windowVals' = (IF pc = "lvl2" THEN windowVals \cup {bat_lvl'} ELSE windowVals)
    /\ isrIn' = <<adcl, adch, pina>>
    /\ isrBetween' = (isrBetween \/ pc = "stat")
    /\ UNCHANGED <<taskVars, rtosVars, timeHist, sendHist, drainHist, notifyHist, lvlUsed,
                   bootVars, bootHist, pairHist>>

(* ------------------------------------------------------------------ *)
(* The environment.                                                    *)
(* ------------------------------------------------------------------ *)
\* The tick interrupt: the tick count advances, and a task delayed until this
\* tick becomes ready.
Tick ==
    /\ absNow < MaxTime
    /\ absNow' = absNow + 1
    /\ xTickCount' = (xTickCount + 1) % TickModulus
    /\ pc' = (IF pc = "delayed" /\ xTickCount' = last_wake_time THEN "ready" ELSE pc)
    /\ UNCHANGED <<last_wake_time, msg, lvl_tmp, battery_queue, display_queue, notifyState,
                   sampleVars, startTick, startAbs, tickNo, bodyStart, prevBodyStart,
                   sendHist, drainHist, notifyHist, readHist, bootVars, bootHist, isrHist, pairHist>>

\* Another task posts a message to the battery control queue.
SendControl(type) ==
    /\ QueueHasRoom(battery_queue, BatteryQueueLen)
    /\ battery_queue' = Append(battery_queue, Msg(type, CONTROL_VALUE))
    /\ drainClean' = (drainClean /\ ~InDrain)
    /\ UNCHANGED <<taskVars, xTickCount, display_queue, notifyState, sampleVars, timeHist,
                   sendHist, owed, fifoOK, drainLen0, recvOK, recvFail, waited,
                   notifiedSince, readHist, bootVars, bootHist, isrHist, pairHist>>

\* Another task notifies the battery monitor task (xTaskNotify on its handle).
Notify ==
    /\ notifyState' = "RECEIVED"
    /\ notifiedSince' = (pc = "wait")
    /\ UNCHANGED <<taskVars, xTickCount, battery_queue, display_queue, sampleVars, timeHist,
                   sendHist, drainHist, readHist, bootVars, bootHist, isrHist, pairHist>>

\* Another task asks the battery monitor task to suspend: it posts a
\* suspend-request to the battery control queue.  The requests are counted.
SendSuspendRequest ==
    /\ nSuspReq < MaxSuspends
    /\ QueueHasRoom(battery_queue, BatteryQueueLen)
    /\ battery_queue' = Append(battery_queue, Msg(XM_MSG_TASKSUSP_REQ, CONTROL_VALUE))
    /\ nSuspReq' = nSuspReq + 1
    /\ drainClean' = (drainClean /\ ~InDrain)
    /\ UNCHANGED <<taskVars, xTickCount, display_queue, notifyState, sampleVars, timeHist,
                   sendHist, owed, fifoOK, drainLen0, recvOK, recvFail, waited,
                   notifiedSince, readHist, bootVars, bootHist, isrHist, nResume>>

\* It resumes the task: one notification for a suspend-request it has posted
\* and not yet answered.
SendResume ==
    /\ nResume < nSuspReq
    /\ notifyState' = "RECEIVED"
    /\ notifiedSince' = (pc = "wait")
    /\ nResume' = nResume + 1
    /\ UNCHANGED <<taskVars, xTickCount, battery_queue, display_queue, sampleVars, timeHist,
                   sendHist, drainHist, readHist, bootVars, bootHist, isrHist, nSuspReq>>

\* The display task takes a message from the display queue.
DisplayReceive ==
    /\ display_queue # <<>>
    /\ display_queue' = Tail(display_queue)
    /\ UNCHANGED <<taskVars, xTickCount, battery_queue, notifyState, sampleVars, timeHist,
                   sendHist, drainHist, notifyHist, readHist, bootVars, bootHist, isrHist, pairHist>>

\* The steps of the task when no suspend-request is ever posted.
TaskStepNoSuspend ==
    \/ TaskStart
    \/ DelayUntilCall
    \/ DelayUntilReturn
    \/ Receive
    \/ ReadLvl
    \/ SendLvl
    \/ SendStat

TaskStep ==
    \/ TaskStepNoSuspend
    \/ NotifyWaitReturn

(* ------------------------------------------------------------------ *)
(* Spec: the task against the clock (MaxTime tick interrupts), the     *)
(* control queue's senders, the notifier and the display task.  The    *)
(* ADC has not completed a conversion: the sample state stays zero.    *)
(* ------------------------------------------------------------------ *)
Next ==
    \/ TaskStep
    \/ Tick
    \/ \E type \in ControlTypes : SendControl(type)
    \/ Notify
    \/ DisplayReceive

Spec == Init /\ [][Next]_vars

(* ------------------------------------------------------------------ *)
(* SpecIsr: the task against the ADC interrupt.  The control queue     *)
(* stays empty and the display queue is never emptied.  The registers  *)
(* the handler reads take a few values each, with bits outside the     *)
(* ones the handler keeps.                                             *)
(* ------------------------------------------------------------------ *)
ADCL_Samples == {0, 255}
ADCH_Samples == {0, 5}
PINA_Samples == {1, 2}

NextIsr ==
    \/ TaskStepNoSuspend
    \/ Tick
    \/ \E adcl \in ADCL_Samples, adch \in ADCH_Samples, pina \in PINA_Samples :
           ADC_ISR(adcl, adch, pina)

SpecIsr == Init /\ [][NextIsr]_vars

(* ------------------------------------------------------------------ *)
(* SpecPct: the task on every sample the ADC can have stored before    *)
(* the task first runs; no conversion completes afterwards.            *)
(* ------------------------------------------------------------------ *)
InitPct == \E lvl \in 0..(ADC_MOD - 1), stat \in {0, 1} : InitWith(lvl, stat)

NextPct ==
    \/ TaskStepNoSuspend
    \/ Tick

SpecPct == InitPct /\ [][NextPct]_vars

(* ------------------------------------------------------------------ *)
(* SpecLive: the task against a requester that posts up to MaxSuspends *)
(* suspend-requests and sends one notification for each, never more    *)
(* notifications than requests posted so far.  The scheduler runs the  *)
(* task whenever it is ready, the tick interrupt is served, and the    *)
(* requester sends every notification it owes.                         *)
(* ------------------------------------------------------------------ *)
NextLive ==
    \/ TaskStep
    \/ Tick
    \/ SendSuspendRequest
    \/ SendResume

SpecLive ==
    /\ Init
    /\ [][NextLive]_vars
    /\ WF_vars(TaskStep)
    /\ WF_vars(Tick)
    /\ WF_vars(SendResume)

(* ------------------------------------------------------------------ *)
(* SpecAdc: the ADC interrupt alone, on register values over the whole *)
(* range of a byte, the bits the handler drops included.               *)
(* ------------------------------------------------------------------ *)
ADCL_Range == {0, 1, 127, 128, 255}
ADCH_Range == {0, 1, 2, 3, 4, 128, 252, 255}
PINA_Range == {0, 1, 2, 254, 255}

NextAdc ==
    \E adcl \in ADCL_Range, adch \in ADCH_Range, pina \in PINA_Range :
        ADC_ISR(adcl, adch, pina)

SpecAdc == Init /\ [][NextAdc]_vars

(* ------------------------------------------------------------------ *)
(* SpecBoot: xt_init_battery_monitor, called any number of times (a    *)
(* caller may retry after a failure), from several contents of the     *)
(* three ADC registers and of the caller's handle slot.  The scheduler *)
(* is not started and no interrupt is served.                          *)
(* ------------------------------------------------------------------ *)
\* Register contents before the first call: all bits clear, all bits set, and
\* two alternating patterns (0x5A, 0xA5).
RegSamples == {0, 255, 90, 165}

InitBoot ==
    /\ InitState("none", 0, 0)
    /\ ADMUX \in RegSamples
    /\ ADCSRA \in RegSamples
    /\ ADCSRB \in RegSamples
    /\ task_handle = 0
    /\ out_handle \in {0, 2}
    /\ status = "none"
    /\ rc = -1
    /\ bpc = "idle"
    /\ ipc = 1
    /\ regs0 = adcRegs
    /\ handle0 = 0

NextBoot ==
    \/ XtInitCall
    \/ InitAdcStep
    \/ \E ok \in BOOLEAN, h \in TaskHandles : XTaskCreate(ok, h)
    \/ XtInitReturn

SpecBoot == InitBoot /\ [][NextBoot]_vars

(* ------------------------------------------------------------------ *)
(* SpecSys: the firmware from reset.  xt_init_battery_monitor is       *)
(* called, and called again after a failure; once it has created the  *)
(* task the scheduler runs: the task, the tick interrupt, the ADC      *)
(* interrupt with one sample, a sender of suspend-requests and the     *)
(* notifier; the display queue is never emptied.  Before that no       *)
(* interrupt is served and no task runs (the comment at lines 82-85).  *)
(* ------------------------------------------------------------------ *)
InitSys ==
    /\ InitBoot
    /\ adcRegs = <<0, 0, 0>>
    /\ out_handle = 0

SchedulerRunning == pc # "none" /\ bpc = "idle"

\* The sample the ADC delivers: 0x1FF with the status pin high, with bits set
\* that the handler drops.
SysSample == <<255, 5, 3>>

NextSys ==
    \/ (pc = "none" /\ XtInitCall)
    \/ InitAdcStep
    \/ \E ok \in BOOLEAN, h \in TaskHandles : XTaskCreate(ok, h)
    \/ XtInitReturn
    \/ TaskStep
    \/ (SchedulerRunning /\ Tick)
    \/ (SchedulerRunning /\ ADC_ISR(SysSample[1], SysSample[2], SysSample[3]))
    \/ (SchedulerRunning /\ SendControl(XM_MSG_TASKSUSP_REQ))
    \/ (SchedulerRunning /\ Notify)

SpecSys == InitSys /\ [][NextSys]_vars

(* ------------------------------------------------------------------ *)
(* SpecPub: the publish step against the display task and the ADC     *)
(* interrupt with one sample.  The control queue stays empty.          *)
(* ------------------------------------------------------------------ *)
NextPub ==
    \/ TaskStepNoSuspend
    \/ Tick
    \/ ADC_ISR(SysSample[1], SysSample[2], SysSample[3])
    \/ DisplayReceive

SpecPub == Init /\ [][NextPub]_vars

(* ------------------------------------------------------------------ *)
(* Properties of the task loop, checked under Spec.                    *)
(* ------------------------------------------------------------------ *)

\* C1: in every tick the battery-status-pin send is attempted only after the
\* battery-level send of the same tick succeeded; when the display queue is
\* full at the battery-level send, the tick ends there without a
\* battery-status-pin attempt and the task is back at vTaskDelayUntil; so the
\* messages the task enqueues in one tick are none, the battery-level message
\* alone, or the battery-level message and then the battery-status-pin message.
C1_StatusOnlyAfterLevel ==
    /\ pc = "stat" => (lvlResult = "ok" /\ sentThisTick = <<XM_MSG_BATLVL>>)
    /\ lvlResult = "full" => (pc = "loop" /\ statResult = "none" /\ sentThisTick = <<>>)
    /\ statResult # "none" => lvlResult = "ok"
    /\ sentThisTick \in {<<>>, <<XM_MSG_BATLVL>>, <<XM_MSG_BATLVL, XM_MSG_BATSTATPIN>>}

\* C1, witness: a battery-level send has found the display queue full.
C1_Witness == lvlResult = "full" /\ pc = "loop" /\ Len(display_queue) = DisplayQueueLen

\* C2, as claimed: the task leaves xTaskNotifyWait only on a notification that
\* was sent after it received the suspend-request.
C2_Original == [][(pc = "wait" /\ pc' # "wait") => notifiedSince]_vars

\* C2, amended: the task leaves xTaskNotifyWait only when a notification is
\* pending, whether it was sent before or after the suspend-request was
\* received; leaving consumes the pending notification and leads back to the
\* receive; and while the task is in xTaskNotifyWait it takes nothing from the
\* battery control queue and adds nothing to the display queue.
C2_ResumeNeedsPendingNotification ==
    [][/\ (pc = "wait" /\ pc' # "wait") =>
              (notifyState = "RECEIVED" /\ notifyState' = "NOT_WAITING" /\ pc' = "recv")
       /\ (pc = "wait" /\ pc' = "wait") =>
              (/\ Len(battery_queue') >= Len(battery_queue)
               /\ Len(display_queue') <= Len(display_queue)
               /\ msg' = msg)
       /\ (pc' = "wait") => notifyState' \in {"WAITING", "RECEIVED"}]_vars

\* C2, witness: the task has received a suspend-request while a notification
\* sent before it was pending, and no notification was sent since.
C2_Witness == pc = "wait" /\ notifyState = "RECEIVED" /\ ~notifiedSince

\* C3: after a suspension the task goes on with the drain of the same tick:
\* the control messages that were in the queue when it resumed are received in
\* queue order before the publish step, and the publish step starts only after
\* a receive that found the queue empty.
C3_ResumeContinuesDrain ==
    /\ fifoOK
    /\ pc = "lvl" => (recvFail = 1 /\ owed = <<>>)
    /\ pc \in {"lvl2", "stat", "loop", "delayed", "ready"} => owed = <<>>
    /\ pc \in {"recv", "wait"} => recvFail = 0

\* C3, witness: the drain of a tick is over, the task was suspended in it, and
\* the last message it received, after the suspension, was not a suspend-request.
C3_Witness == pc = "lvl" /\ waited /\ msg.type = XM_MSG_OTHER

\* C4: a drain that starts with N messages in the control queue, none of them
\* a suspend-request, and during which nothing is enqueued, makes N successful
\* receives and then one failed receive, and never calls xTaskNotifyWait.
C4_DrainCount ==
    (pc = "lvl" /\ drainClean) =>
        (recvOK = drainLen0 /\ recvFail = 1 /\ ~waited)

\* C4, witness: such a drain of two messages is over.
C4_Witness == pc = "lvl" /\ drainClean /\ drainLen0 = 2 /\ recvOK = 2

\* C5: after k calls of vTaskDelayUntil the scheduled wake time is
\* start + k * TASK_DELAY in the tick counter's arithmetic, whatever the times
\* at which the task actually ran.
C5_NoDrift ==
    pc # "init" => last_wake_time = (startTick + tickNo * TASK_DELAY) % TickModulus

\* C5, witness: the task is delayed for its third tick or a later one after a
\* tick body that started later than scheduled.
C5_Witness ==
    /\ pc = "delayed"
    /\ tickNo >= 3
    /\ bodyStart > startAbs + (tickNo - 1) * TASK_DELAY

\* C6, as claimed: the starts of two consecutive tick bodies are at least
\* TASK_DELAY apart.
C6_Original == (InBody /\ prevBodyStart >= 0) => bodyStart - prevBodyStart >= TASK_DELAY

\* C6, amended: the k-th tick body never starts before its scheduled wake
\* time, start + k * TASK_DELAY, and enqueues at most one battery-level message.
C6_NotBeforeSchedule ==
    /\ Len(SelectSeq(sentThisTick, LAMBDA t : t = XM_MSG_BATLVL)) <= 1
    /\ (InBody \/ (pc = "loop" /\ tickNo >= 1)) =>
           bodyStart >= startAbs + tickNo * TASK_DELAY
    /\ (pc \in {"delayed", "ready"} /\ tickNo >= 2) =>
           bodyStart >= startAbs + (tickNo - 1) * TASK_DELAY
    /\ bodyStart <= absNow

\* C6, witness: two consecutive tick bodies have started within the same tick
\* period, the second right after the first.
C6_Witness == InBody /\ prevBodyStart >= 0 /\ bodyStart = prevBodyStart

\* C12: every queue call of the task returns at once: wherever the task is at
\* a receive on the control queue or at a send on the display queue, it can
\* take its step, the queue empty or full or not; the task cannot take a step
\* only inside vTaskDelayUntil and inside xTaskNotifyWait without a pending
\* notification.
C12_QueueCallsNeverBlock ==
    /\ pc \in {"recv", "lvl", "lvl2", "stat"} => ENABLED TaskStep
    /\ ~(ENABLED TaskStep) =>
           (pc = "delayed" \/ (pc = "wait" /\ notifyState = "WAITING"))

\* C12, witness: the task is at the battery-status-pin send, the display queue
\* is full and the control queue is empty.
C12_Witness ==
    /\ pc = "stat"
    /\ Len(display_queue) = DisplayQueueLen
    /\ battery_queue = <<>>
    /\ ENABLED SendStat

\* C17: every message in the display queue is a battery-level message whose
\* value is a percentage (a quotient by BAT_MAX - BAT_MIN) or a
\* battery-status-pin message whose value is 0 or 1, and none carries the
\* value of a control message; when the task computes the value of the
\* battery-level message, the type of its buffer is already XM_MSG_BATLVL.
C17_OnlyOwnMessages ==
    /\ \A i \in 1..Len(display_queue) :
           LET m == display_queue[i] IN
           /\ m.type \in {XM_MSG_BATLVL, XM_MSG_BATSTATPIN}
           /\ m.value # CONTROL_VALUE
           /\ m.type = XM_MSG_BATLVL => Den(m.value) = BAT_MAX - BAT_MIN
           /\ m.type = XM_MSG_BATSTATPIN => m.value \in {Rat(0, 1), Rat(1, 1)}
    /\ pc = "lvl2" => msg.type = XM_MSG_BATLVL

\* C17, witness: the task is about to compute the battery-level value while
\* its buffer still holds the value of the control message received last, and
\* the display queue holds a message of an earlier publish step.
C17_Witness ==
    /\ pc = "lvl2"
    /\ msg = Msg(XM_MSG_BATLVL, CONTROL_VALUE)
    /\ Len(display_queue) = 1

(* ------------------------------------------------------------------ *)
(* Suspension and resumption, checked under SpecLive.                  *)
(* ------------------------------------------------------------------ *)

\* C19: when every suspend-request is answered by a notification sent after
\* the request was posted, a task that is in xTaskNotifyWait eventually leaves
\* it, finishes the drain and reaches the publish step.
C19_NeverBlockedForever == (pc = "wait") ~> (pc = "lvl")

(* ------------------------------------------------------------------ *)
(* The read of the shared sample state, checked under SpecIsr.         *)
(* ------------------------------------------------------------------ *)

\* C7: the value of _bat_lvl the task uses for the percentage is one of the
\* values _bat_lvl held while the task read it, each stored by one invocation
\* of the interrupt handler (or the initial zero).
C7_NoTornRead == lvlUsed # -1 => lvlUsed \in windowVals

\* C18: when both messages of a tick are enqueued, the handler has not run
\* between the task's read of _bat_lvl for the first and its read of _bat_stat
\* for the second, so that both values come from one invocation.
C18_SameSample == (pc = "loop" /\ statResult = "ok") => ~isrBetween

(* ------------------------------------------------------------------ *)
(* Dropped messages, checked under SpecPub.                            *)
(* ------------------------------------------------------------------ *)

\* C13: a tick makes at most one battery-level attempt and at most one
\* battery-status-pin attempt, the second only after the first succeeded;
\* after a failed attempt the task's next step is vTaskDelayUntil and it adds
\* nothing to the display queue in that tick; and every battery-level attempt
\* that finds a free slot enqueues the percentage of the value of _bat_lvl
\* read in that tick, whatever was dropped before.
C13_DroppedNotRetried ==
    [][/\ (pc = "lvl2" /\ pc' # "lvl2") =>
              /\ lvlResult = "none"
              /\ IF QueueHasRoom(display_queue, DisplayQueueLen)
                 THEN display_queue' =
                          Append(display_queue, Msg(XM_MSG_BATLVL, BAT_PERCENT(LvlRead)))
                 ELSE display_queue' = display_queue /\ pc' = "loop"
       /\ (pc = "stat" /\ pc' # "stat") => (statResult = "none" /\ lvlResult = "ok")
       /\ (lvlResult = "full" \/ statResult = "full") => pc = "loop"
       /\ (pc = "loop" /\ pc' # "loop") =>
              (pc' \in {"delayed", "ready"} /\ display_queue' = display_queue)]_vars

\* C13, witness: the battery-level message of the raw level 0 was dropped,
\* and a later tick has enqueued the battery-level message of the raw level
\* 511 that the handler stored in between.
C13_Witness ==
    /\ pc = "stat"
    /\ droppedLvl = 0
    /\ lvlUsed = 511
    /\ display_queue # <<>>
    /\ display_queue[Len(display_queue)] = Msg(XM_MSG_BATLVL, BAT_PERCENT(511))

(* ------------------------------------------------------------------ *)
(* The writers of the shared sample state, checked under SpecSys.      *)
(* ------------------------------------------------------------------ *)

\* C15: a step in which the interrupt handler runs changes nothing of the
\* task, of the queues, the tick count and the notification state, and of
\* xt_init_battery_monitor with the registers and _task_handle; and every
\* other step (of the task, of xt_init_battery_monitor with init_adc, of the
\* environment) leaves _bat_lvl and _bat_stat as they are.
C15_SampleFrame ==
    [][/\ isrIn' # isrIn => UNCHANGED <<taskVars, rtosVars, bootVars>>
       /\ isrIn' = isrIn => UNCHANGED sampleVars]_vars

\* C15, witness: the handler has stored a sample, and the task, created by
\* xt_init_battery_monitor, has published and is now suspended.
C15_Witness ==
    /\ isrIn = SysSample
    /\ bat_lvl = 511 /\ bat_stat = 1
    /\ task_handle \in TaskHandles
    /\ lvlUsed # -1
    /\ pc = "wait"

(* ------------------------------------------------------------------ *)
(* The interrupt handler, checked under SpecAdc.                       *)
(* ------------------------------------------------------------------ *)

\* C14: _bat_lvl is in 0..1023 and _bat_stat in {0, 1}; both are 0 until the
\* handler has run; once it has run, _bat_lvl is (ADCH mod 4) * 256 + ADCL and
\* _bat_stat is bit 0 of PINA, for the ADCL, ADCH and PINA of one and the
\* same invocation, the last.
C14_SampleRange ==
    /\ bat_lvl \in 0..(ADC_MOD - 1)
    /\ bat_stat \in {0, 1}
    /\ isrIn = <<>> => (bat_lvl = 0 /\ bat_stat = 0)
    /\ isrIn # <<>> =>
           /\ bat_lvl = (isrIn[2] % 4) * 256 + isrIn[1]
           /\ bat_stat = isrIn[3] % 2

\* C14, witness: the handler has read 0xFF from ADCL and from ADCH and 0xFE
\* from PINA.
C14_Witness == isrIn = <<255, 255, 254>> /\ bat_lvl = 1023 /\ bat_stat = 0

(* ------------------------------------------------------------------ *)
(* The percentage, checked under SpecPct.                              *)
(* ------------------------------------------------------------------ *)
\* The battery-level message the task has just enqueued.
LevelMsg == display_queue[Len(display_queue)]

LevelSent == pc = "stat" /\ display_queue # <<>> /\ LevelMsg.type = XM_MSG_BATLVL

\* C8: for a raw reading r in BAT_MIN..BAT_MAX the percentage of the
\* battery-level message is in [0, 100], is 0 at BAT_MIN and 100 at BAT_MAX,
\* and is smaller than the percentage of every greater reading of the range.
C8_PercentInRange ==
    (LevelSent /\ lvlUsed \in BAT_MIN..BAT_MAX) =>
        /\ RatLeq(Rat(0, 1), LevelMsg.value)
        /\ RatLeq(LevelMsg.value, Rat(100, 1))
        /\ RatEq(LevelMsg.value, Rat(0, 1)) <=> lvlUsed = BAT_MIN
        /\ RatEq(LevelMsg.value, Rat(100, 1)) <=> lvlUsed = BAT_MAX
        /\ \A r \in (lvlUsed + 1)..BAT_MAX : RatLess(LevelMsg.value, BAT_PERCENT(r))

\* C8, witness: the battery-level message of the reading BAT_MAX is enqueued.
C8_Witness == LevelSent /\ lvlUsed = BAT_MAX /\ RatEq(LevelMsg.value, Rat(100, 1))

\* C9: for every raw reading r in 0..1023 the percentage of the battery-level
\* message is the linear value (r - BAT_MIN) * 100 / (BAT_MAX - BAT_MIN),
\* negative below BAT_MIN and greater than 100 above BAT_MAX.
C9_UnclampedLinear ==
    LevelSent =>
        /\ RatEq(LevelMsg.value, Rat((lvlUsed - BAT_MIN) * 100, BAT_MAX - BAT_MIN))
        /\ lvlUsed < BAT_MIN => RatLess(LevelMsg.value, Rat(0, 1))
        /\ lvlUsed > BAT_MAX => RatLess(Rat(100, 1), LevelMsg.value)

\* The battery-status-pin message the task has just enqueued.
StatusSent ==
    /\ pc = "loop"
    /\ statResult = "ok"
    /\ display_queue # <<>>
    /\ LevelMsg.type = XM_MSG_BATSTATPIN

\* C10, as claimed: with _bat_lvl = 622 the battery-level message carries 50,
\* and with _bat_stat = 1 the battery-status-pin message carries 1.
C10_Original ==
    /\ (LevelSent /\ lvlUsed = 622) => RatEq(LevelMsg.value, Rat(50, 1))
    /\ (StatusSent /\ bat_stat = 1) => RatEq(LevelMsg.value, Rat(1, 1))

\* C10, amended: with _bat_lvl = 622 the battery-level message carries
\* 77 / 1.55 = 7700 / 155, which is between 49 and 50, and with _bat_stat = 1
\* the battery-status-pin message carries 1.
C10_Example ==
    /\ (LevelSent /\ lvlUsed = 622) =>
           /\ RatEq(LevelMsg.value, Rat(7700, 155))
           /\ RatLess(Rat(49, 1), LevelMsg.value)
           /\ RatLess(LevelMsg.value, Rat(50, 1))
    /\ (StatusSent /\ bat_stat = 1) => RatEq(LevelMsg.value, Rat(1, 1))

\* C10, witness: both messages of a tick with _bat_lvl = 622 and _bat_stat = 1
\* are enqueued.
C10_Witness ==
    /\ StatusSent
    /\ lvlUsed = 622
    /\ bat_stat = 1
    /\ sentThisTick = <<XM_MSG_BATLVL, XM_MSG_BATSTATPIN>>

(* ------------------------------------------------------------------ *)
(* The start-up, checked under SpecBoot.                               *)
(* ------------------------------------------------------------------ *)
\* The bits init_adc is to establish, read from the registers.
AdcConfigured ==
    /\ BitOf(ADMUX, REFS1) = 1 /\ BitOf(ADMUX, REFS0) = 0
    /\ <<BitOf(ADMUX, MUX4), BitOf(ADMUX, MUX3), BitOf(ADMUX, MUX2), BitOf(ADMUX, MUX1),
         BitOf(ADMUX, MUX0)>> = <<0, 0, 0, 1, 1>>
    /\ <<BitOf(ADCSRA, ADPS2), BitOf(ADCSRA, ADPS1), BitOf(ADCSRA, ADPS0)>> = <<1, 1, 0>>
    /\ <<BitOf(ADCSRB, ADTS2), BitOf(ADCSRB, ADTS1), BitOf(ADCSRB, ADTS0)>> = <<0, 0, 0>>
    /\ BitOf(ADCSRA, ADEN) = 1 /\ BitOf(ADCSRA, ADIE) = 1 /\ BitOf(ADCSRA, ADATE) = 1

\* The bits of each register the claim names.
NamedBits ==
    << {REFS1, REFS0, MUX4, MUX3, MUX2, MUX1, MUX0},
       {ADEN, ADSC, ADATE, ADIE, ADPS2, ADPS1, ADPS0},
       {ADTS2, ADTS1, ADTS0} >>

\* xt_init_battery_monitor has been called and has returned.
Returned == bpc = "idle" /\ rc # -1

\* C11: xt_init_battery_monitor has configured the ADC when it attempts to
\* create the task and attempts nothing before; it returns 0 with the created
\* handle stored in _task_handle exactly when xTaskCreate returned pdPASS, and
\* returns non-zero with _task_handle as it was at the call exactly when
\* xTaskCreate failed.
C11_InitResult ==
    /\ bpc = "init_adc" => status = "none"
    /\ bpc \in {"create", "check"} =>
           (AdcConfigured /\ BitOf(ADCSRA, ADSC) = 1 /\ ipc = Len(init_adc_code) + 1)
    /\ bpc = "check" => status # "none"
    /\ Returned =>
           /\ rc = 0 <=> status = pdPASS
           /\ status = pdPASS => (task_handle = out_handle /\ task_handle \in TaskHandles)
           /\ status # pdPASS => (rc # 0 /\ task_handle = handle0)

\* C11, witness: a call has failed; _task_handle is as before although the
\* caller's slot holds another value.
C11_Witness ==
    /\ Returned
    /\ status = errCOULD_NOT_ALLOCATE_REQUIRED_MEMORY
    /\ rc = 1
    /\ out_handle # task_handle

\* C16: whatever ADMUX, ADCSRA and ADCSRB held when init_adc was entered, when
\* it returns REFS1..REFS0 = 10, MUX4..MUX0 = 00011, ADPS2..ADPS0 = 110,
\* ADTS2..ADTS0 = 000 and ADEN, ADIE, ADATE and ADSC are set; at every point
\* the bits that are not named are as they were at the entry; and ADSC is
\* written by the last statement, when every other named bit has its final
\* value.
C16_AdcConfiguration ==
    /\ (bpc \in {"create", "check"} \/ Returned) => (AdcConfigured /\ BitOf(ADCSRA, ADSC) = 1)
    /\ \A r \in 1..3 : \A n \in (0..7) \ NamedBits[r] :
           BitOf(adcRegs[r], n) = BitOf(regs0[r], n)
    /\ bpc = "init_adc" =>
           /\ BitOf(ADCSRA, ADSC) = BitOf(regs0[2], ADSC)
           /\ ipc = Len(init_adc_code) =>
                  (AdcConfigured /\ init_adc_code[ipc] = Stmt("SET", "ADCSRA", ADSC))

\* C16, witness: init_adc has returned after it was entered with every bit of
\* the three registers set.
C16_Witness == bpc = "create" /\ regs0 = <<255, 255, 255>> /\ adcRegs = <<163, 254, 248>>

====
